---- MODULE Spec2Model ----
(***************************************************************************)
(* mcp-monitor: the TelemetryCollector (event recording and aggregation),  *)
(* the MCPInterceptor (instrumentation wrapper) and the listeners the      *)
(* MonitorServer attaches to the collector.                                *)
(*                                                                         *)
(* Time is Date.now() in milliseconds, counted from the construction of    *)
(* the collector.  nanoid() is a counter: every draw is fresh.  An average *)
(* (one division) is kept as an exact fraction [num, den]; the rates, a    *)
(* division followed by a multiplication, are IEEE-754 doubles.            *)
(***************************************************************************)
EXTENDS Integers, Sequences, FiniteSets, TLC

\* ------------------------------------------------------------------ bounds
MaxIds == 2
MaxTicks == 1
MaxCalls == 1
MaxLog == 3
MaxRateLog == 10
MaxShortLog == 3
MaxLongLog == 21
MaxSweepIds == 3
MaxSweepTicks == 2
MaxErrorLog == 102
MaxServers == 2

\* ------------------------------------------------------- program constants
MsPerDay == 86400000
RetentionDays == 1
CleanupIntervalMs == 60000
LatencyCap == 10000
ErrorsShown == 100
OneSecondMs == 1000
OneMinuteMs == 60000

VARIABLES toolCalls, resourceAccesses, promptCalls, errors, startTime,
          latencies, requestTimestamps,
          now, ticks, nextId, lastSweep, servers, observed, calls

collectorVars == <<toolCalls, resourceAccesses, promptCalls, errors, startTime,
                   latencies, requestTimestamps>>
vars == <<toolCalls, resourceAccesses, promptCalls, errors, startTime,
          latencies, requestTimestamps, now, ticks, nextId, lastSweep,
          servers, observed, calls>>

\* ----------------------------------------------------------- JS helpers
\* A property read of an object that may lack the property.
Undefined == "<undefined>"
Has(r, f) == f \in DOMAIN r
Get(r, f) == IF f \in DOMAIN r THEN r[f] ELSE Undefined

\* { ...base, ...call }: the later spread wins on every key it carries.
Spread(base, call) ==
  [f \in DOMAIN base \cup DOMAIN call |-> IF f \in DOMAIN call THEN call[f] ELSE base[f]]

\* Truthiness of a value that is a string or undefined (call.error).
TruthyStr(s) == s # Undefined /\ s # ""

Max(a, b) == IF a >= b THEN a ELSE b

RECURSIVE SumSeq(_)
SumSeq(s) == IF s = <<>> THEN 0 ELSE Head(s) + SumSeq(Tail(s))

\* Mutant of SliceLast: array.slice(0, n)
SliceFirst(s, n) == IF Len(s) <= n THEN s ELSE SubSeq(s, 1, n)

\* array.slice(-n)
SliceLast(s, n) == IF Len(s) <= n THEN s ELSE SubSeq(s, Len(s) - n + 1, Len(s))

\* a / b as an exact fraction
Frac(a, b) == [num |-> a, den |-> b]
FracEq(x, y) == x.num * y.den = y.num * x.den

\* ------------------------------------------------------------ JS numbers
\* A JS number is an IEEE 754 double.  A positive one is carried as its
\* MantissaBits significant bits m and the exponent e of the most significant
\* one: its value is m * 2^(e - MantissaBits + 1).  m and every other long
\* number is a sequence of limbs of LimbBits bits, least significant first.
\* Every operation rounds its exact result to the nearest double, ties to even.
MantissaBits == 53
LimbBits == 15
LimbBase == 2^LimbBits
MantissaLimbs == (MantissaBits + LimbBits - 1) \div LimbBits
DblZero == [zero |-> TRUE]
IsZero(x) == "zero" \in DOMAIN x

Limb(big, j) == IF j >= 1 /\ j <= Len(big) THEN big[j] ELSE 0
Bit(big, i) == (Limb(big, (i - 1) \div LimbBits + 1) \div 2^((i - 1) % LimbBits)) % 2

\* The position of the most significant bit of big, 0 for zero.
BitLen(big) ==
  LET used == {j \in 1..Len(big) : big[j] # 0}
  IN IF used = {} THEN 0
     ELSE LET top == CHOOSE j \in used : \A k \in used : k <= j
              width == CHOOSE w \in 1..LimbBits : 2^(w - 1) <= big[top] /\ big[top] < 2^w
          IN (top - 1) * LimbBits + width

\* The limbs of a natural number below 2^31.
BigOfNat(n) == <<n % LimbBase, (n \div LimbBase) % LimbBase, n \div (LimbBase * LimbBase)>>

\* big * n + carry, for n * LimbBase below 2^31
RECURSIVE MulNat(_, _, _)
MulNat(big, n, carry) ==
  IF big = <<>> THEN BigOfNat(carry)
  ELSE LET t == big[1] * n + carry
       IN <<t % LimbBase>> \o MulNat(Tail(big), n, t \div LimbBase)

\* big * 2^s
ShiftLeft(big, s) ==
  [j \in 1..(s \div LimbBits) |-> 0] \o MulNat(big, 2^(s % LimbBits), 0)

\* The k lowest limbs of big \div 2^s
ShiftRight(big, s, k) ==
  LET q == s \div LimbBits
      r == s % LimbBits
  IN [j \in 1..k |-> (Limb(big, q + j) \div 2^r)
                       + (Limb(big, q + j + 1) % 2^r) * 2^(LimbBits - r)]

RECURSIVE AddOne(_)
AddOne(big) ==
  IF big = <<>> THEN <<1>>
  ELSE IF big[1] + 1 < LimbBase THEN <<big[1] + 1>> \o Tail(big)
  ELSE <<0>> \o AddOne(Tail(big))

\* The double nearest to big * 2^lsbExp, plus a non-zero amount below the
\* last bit of big when sticky.
RoundToDouble(big, lsbExp, sticky) ==
  LET n == BitLen(big)
  IN IF n = 0 THEN DblZero
     ELSE IF n <= MantissaBits
     THEN [m |-> ShiftRight(ShiftLeft(big, MantissaBits - n), 0, MantissaLimbs),
           e |-> lsbExp + n - 1]
     ELSE LET drop == n - MantissaBits
              kept == ShiftRight(big, drop, MantissaLimbs)
              rest == sticky \/ \E i \in 1..(drop - 1) : Bit(big, i) = 1
              up == Bit(big, drop) = 1 /\ (rest \/ Bit(kept, 1) = 1)
              r == IF up THEN ShiftRight(AddOne(kept), 0, MantissaLimbs) ELSE kept
          IN IF BitLen(r) > MantissaBits
             THEN [m |-> ShiftRight(r, 1, MantissaLimbs), e |-> lsbExp + n]
             ELSE [m |-> r, e |-> lsbExp + n - 1]

DblOfNat(n) == RoundToDouble(BigOfNat(n), 0, FALSE)

\* k limbs of r / b after the point, least significant first, and what is
\* left of r (0 <= r < b < 2 * LimbBase).
RECURSIVE FracLimbs(_, _, _)
FracLimbs(r, b, k) ==
  IF k = 0 THEN [limbs |-> <<>>, rem |-> r]
  ELSE LET t == r * LimbBase
           rest == FracLimbs(t % b, b, k - 1)
       IN [limbs |-> rest.limbs \o <<t \div b>>, rem |-> rest.rem]

\* a / b of two naturals, 0 < b < 2 * LimbBase
DblDiv(a, b) ==
  LET k == (MantissaBits + LimbBits + 1) \div LimbBits + 1
      f == FracLimbs(a % b, b, k)
  IN RoundToDouble(f.limbs \o BigOfNat(a \div b), -(k * LimbBits), f.rem # 0)

\* x * n of a double and a natural, n * LimbBase below 2^31
DblMulNat(x, n) ==
  IF IsZero(x) THEN DblZero
  ELSE RoundToDouble(MulNat(x.m, n, 0), x.e - MantissaBits + 1, FALSE)

\* (part / whole) * 100, as calculatePerformance computes a rate
PercentOf(part, whole) == DblMulNat(DblDiv(part, whole), 100)

\* The rates of the counts the bounds admit, computed once.
PercentTable ==
  [whole \in 1..(MaxRateLog + MaxLongLog) |-> [part \in 0..whole |-> PercentOf(part, whole)]]

\* -x of a positive double: rounding is symmetric in the sign.
DblNeg(x) == [m |-> x.m, e |-> x.e, neg |-> TRUE]

Percent(part, whole) ==
  IF part < 0 THEN DblNeg(PercentOf(-part, whole))
  ELSE IF whole \in DOMAIN PercentTable /\ part \in DOMAIN PercentTable[whole]
  THEN PercentTable[whole][part]
  ELSE PercentOf(part, whole)

\* ------------------------------------------------------------- JS values
\* A JS value carried as a payload (params, args, result): its type and, for a
\* string, its characters.  "cyclic" is an object JSON.stringify rejects (a
\* circular structure, a BigInt inside).
JsVal(t, s) == [t |-> t, s |-> s]
JsUndefined == JsVal("undefined", <<>>)
EmptyObj == JsVal("object", <<>>)
SomeObj == JsVal("object", <<"k">>)
CyclicObj == JsVal("cyclic", <<>>)
JsStr(chars) == JsVal("string", chars)

\* JSON.stringify(message) in MonitorServer.broadcast succeeds.
Serializable(rec) ==
  \A f \in {"params", "args", "result"} \cap DOMAIN rec : rec[f].t # "cyclic"

\* ------------------------------------------------ the collector, as a value
\* The collector's fields with the clock and the id source, threaded through the
\* synchronous calls of one handler.  listeners: the MonitorServers started on
\* the collector, each with one listener per event, in the order they
\* subscribed.  threw: a listener threw out of emit().  ingestions: what each
\* ingestion call of the handler so far stored, derived, notified and whether
\* it raised.
Cur ==
  [toolCalls |-> toolCalls, resourceAccesses |-> resourceAccesses,
   promptCalls |-> promptCalls, errors |-> errors, startTime |-> startTime,
   latencies |-> latencies, requestTimestamps |-> requestTimestamps,
   clock |-> now, ticks |-> ticks, nextId |-> nextId,
   listeners |-> servers, threw |-> FALSE, ingestions |-> <<>>]

\* Date.now() read later in the same synchronous call: the clock may have moved
\* on by d ms since the previous read.
Advance(S, d) == [S EXCEPT !.clock = @ + d, !.ticks = @ + d]

Notice(k, event, rec) == [observer |-> k, event |-> event, record |-> rec]

\* EventEmitter.emit: the listeners of the event run synchronously in the order
\* they subscribed; one that throws makes emit throw, and those after it are
\* not called.  The listeners are those of MonitorServer.start, each of which
\* serialises the record to broadcast it.
emit(S, event, rec) ==
  LET reached == IF Serializable(rec) THEN S.listeners ELSE 1
      notes == [k \in 1..reached |-> Notice(k, event, rec)]
  IN IF S.listeners = 0 THEN S
     ELSE [S EXCEPT !.threw = ~Serializable(rec),
                    !.ingestions = [@ EXCEPT ![Len(@)].notified = @ \o notes,
                                             ![Len(@)].raised = ~Serializable(rec)]]

recordError(S, error, d) ==
  LET T == Advance(S, d)
      errorLog == Spread([id |-> T.nextId, timestamp |-> T.clock], error)
  IN emit([T EXCEPT !.errors = Append(@, errorLog), !.nextId = @ + 1,
                    !.ingestions = [@ EXCEPT ![Len(@)].derived = <<errorLog>>]],
          "mcp_error", errorLog)

recordRequest(S, rec, d) ==
  LET T == Advance(S, d)
      U == [T EXCEPT !.requestTimestamps = Append(@, T.clock)]
  IN IF Has(rec, "duration") THEN [U EXCEPT !.latencies = Append(@, rec.duration)]
     ELSE U

\* Mutant of ErrorOrUnknown: the error of the event as it is, without the
\* default.
ErrorAsCarried(rec) == Get(rec, "error")

\* error: rec.error || 'Unknown error'
ErrorOrUnknown(rec) ==
  IF TruthyStr(Get(rec, "error")) THEN rec.error ELSE "Unknown error"

\* The part the three ingestion operations share: after the push of the record,
\* recordRequest, recordError when status is 'error', then the emit.
AfterPush(S, rec, type, nameField, event, d1, d2) ==
  LET S1 == [S EXCEPT !.ingestions =
               Append(@, [stored |-> rec, event |-> event, derived |-> <<>>,
                          notified |-> <<>>, raised |-> FALSE])]
      S2 == recordRequest(S1, rec, d1)
      failed == Get(rec, "status") = "error"
      S3 == IF failed
            THEN recordError(S2, [type |-> type, name |-> Get(rec, nameField),
                                  error |-> ErrorOrUnknown(rec)], d2)
            ELSE S2
  IN IF S3.threw THEN S3 ELSE emit(S3, event, rec)

NewRecord(S, call) == Spread([id |-> S.nextId, timestamp |-> S.clock], call)

\* Mutant of recordToolCall: the record goes to the front of the log.
recordToolCallUnshift(S, call, d1, d2) ==
  LET toolCall == NewRecord(S, call)
  IN AfterPush([S EXCEPT !.toolCalls = <<toolCall>> \o @, !.nextId = @ + 1],
               toolCall, "tool", "toolName", "tool_call", d1, d2)

recordToolCall(S, call, d1, d2) ==
  LET toolCall == NewRecord(S, call)
  IN AfterPush([S EXCEPT !.toolCalls = Append(@, toolCall), !.nextId = @ + 1],
               toolCall, "tool", "toolName", "tool_call", d1, d2)

recordResourceAccess(S, access, d1, d2) ==
  LET resourceAccess == NewRecord(S, access)
  IN AfterPush([S EXCEPT !.resourceAccesses = Append(@, resourceAccess), !.nextId = @ + 1],
               resourceAccess, "resource", "resourceUri", "resource_access", d1, d2)

recordPromptCall(S, call, d1, d2) ==
  LET promptCall == NewRecord(S, call)
  IN AfterPush([S EXCEPT !.promptCalls = Append(@, promptCall), !.nextId = @ + 1],
               promptCall, "prompt", "promptName", "prompt_call", d1, d2)

\* The handler's effect on the collector becomes the next state.
Commit(S) ==
  /\ toolCalls' = S.toolCalls
  /\ resourceAccesses' = S.resourceAccesses
  /\ promptCalls' = S.promptCalls
  /\ errors' = S.errors
  /\ startTime' = S.startTime
  /\ latencies' = S.latencies
  /\ requestTimestamps' = S.requestTimestamps
  /\ now' = S.clock
  /\ ticks' = S.ticks
  /\ nextId' = S.nextId

\* ------------------------------------------------------------- snapshot
\* Position of the entry for key in a Map kept as a sequence in insertion order
\* (0: no entry).
\* Mutant of MapIndex: every key finds the first entry.
MapIndexOfFirst(m, keyField, key) == IF Len(m) > 0 THEN 1 ELSE 0

MapIndex(m, keyField, key) ==
  IF \E i \in 1..Len(m) : m[i][keyField] = key
  THEN CHOOSE i \in 1..Len(m) : m[i][keyField] = key
  ELSE 0

MapSet(m, keyField, entry) ==
  LET i == MapIndex(m, keyField, entry[keyField])
  IN IF i = 0 THEN Append(m, entry) ELSE [m EXCEPT ![i] = entry]

\* Mutant of AvgDurationOf: the sum is divided by the number of calls of the
\* name, those without a duration included.
AvgDurationOverAllCalls(log, nameField, name) ==
  LET ofName == SelectSeq(log, LAMBDA c : Get(c, nameField) = name)
      withDuration == SelectSeq(ofName, LAMBDA c : Has(c, "duration"))
      durations == [i \in 1..Len(withDuration) |-> withDuration[i].duration]
  IN IF Len(durations) > 0 THEN Frac(SumSeq(durations), Len(ofName)) ELSE Frac(0, 1)

\* durations.reduce((a, b) => a + b, 0) / durations.length, 0 for no durations,
\* over the records of log whose nameField is name and that carry a duration.
AvgDurationOf(log, nameField, name) ==
  LET withDuration == SelectSeq(log, LAMBDA c : Get(c, nameField) = name /\ Has(c, "duration"))
      durations == [i \in 1..Len(withDuration) |-> withDuration[i].duration]
  IN IF Len(durations) > 0 THEN Frac(SumSeq(durations), Len(durations)) ELSE Frac(0, 1)

\* for (const call of this.toolCalls) { ... }: the loop over a log of several
\* calls is the loop over its first half, then the loop over the rest started
\* from the map the first half has built.
RECURSIVE ToolFold(_, _)
ToolFold(log, toolMap) ==
  IF log = <<>> THEN toolMap
  ELSE IF Len(log) > 1
  THEN LET half == Len(log) \div 2
           first == ToolFold(SubSeq(log, 1, half), toolMap)
       IN IF first = <<>> THEN first ELSE ToolFold(SubSeq(log, half + 1, Len(log)), first)
  ELSE LET call == Head(log)
           i == MapIndex(toolMap, "name", Get(call, "toolName"))
           existing == IF i # 0 THEN toolMap[i]
                       ELSE [name |-> Get(call, "toolName"), callCount |-> 0,
                             successCount |-> 0, errorCount |-> 0,
                             avgDuration |-> Frac(0, 1), lastCalled |-> 0,
                             errors |-> <<>>]
           status == Get(call, "status")
           updated ==
             [existing EXCEPT
                !.callCount = @ + 1,
                !.successCount = IF status = "success" THEN @ + 1 ELSE @,
                !.errorCount = IF status = "error" THEN @ + 1 ELSE @,
                !.errors = IF status = "error" /\ TruthyStr(Get(call, "error"))
                           THEN Append(@, call.error) ELSE @,
                !.lastCalled = Max(@, call.timestamp)]
       IN MapSet(toolMap, "name", updated)

calculateToolMetrics(log) ==
  LET toolMap == ToolFold(log, <<>>)
  IN [i \in 1..Len(toolMap) |->
        [toolMap[i] EXCEPT !.avgDuration = AvgDurationOf(log, "toolName", toolMap[i].name)]]

\* if (x) total += x, for a field that is a number or missing
TruthyNum(rec, f) == Has(rec, f) /\ rec[f] # 0

RECURSIVE ResourceFold(_, _)
ResourceFold(log, resourceMap) ==
  IF log = <<>> THEN resourceMap
  ELSE IF Len(log) > 1
  THEN LET half == Len(log) \div 2
           first == ResourceFold(SubSeq(log, 1, half), resourceMap)
       IN IF first = <<>> THEN first ELSE ResourceFold(SubSeq(log, half + 1, Len(log)), first)
  ELSE LET access == Head(log)
           i == MapIndex(resourceMap, "uri", Get(access, "resourceUri"))
           existing == IF i # 0 THEN resourceMap[i]
                       ELSE [uri |-> Get(access, "resourceUri"), accessCount |-> 0,
                             successCount |-> 0, errorCount |-> 0,
                             totalBytesTransferred |-> 0, avgDuration |-> Frac(0, 1)]
           status == Get(access, "status")
           updated ==
             [existing EXCEPT
                !.accessCount = @ + 1,
                !.successCount = IF status = "success" THEN @ + 1 ELSE @,
                !.errorCount = IF status = "error" THEN @ + 1 ELSE @,
                !.totalBytesTransferred =
                   IF TruthyNum(access, "bytesTransferred")
                   THEN @ + access.bytesTransferred ELSE @]
       IN MapSet(resourceMap, "uri", updated)

calculateResourceMetrics(log) ==
  LET resourceMap == ResourceFold(log, <<>>)
  IN [i \in 1..Len(resourceMap) |->
        [resourceMap[i] EXCEPT
           !.avgDuration = AvgDurationOf(log, "resourceUri", resourceMap[i].uri)]]

RECURSIVE PromptFold(_, _)
PromptFold(log, promptMap) ==
  IF log = <<>> THEN promptMap
  ELSE IF Len(log) > 1
  THEN LET half == Len(log) \div 2
           first == PromptFold(SubSeq(log, 1, half), promptMap)
       IN IF first = <<>> THEN first ELSE PromptFold(SubSeq(log, half + 1, Len(log)), first)
  ELSE LET call == Head(log)
           i == MapIndex(promptMap, "name", Get(call, "promptName"))
           existing == IF i # 0 THEN promptMap[i]
                       ELSE [name |-> Get(call, "promptName"), callCount |-> 0,
                             successCount |-> 0, errorCount |-> 0,
                             avgDuration |-> Frac(0, 1), totalTokens |-> 0]
           status == Get(call, "status")
           updated ==
             [existing EXCEPT
                !.callCount = @ + 1,
                !.successCount = IF status = "success" THEN @ + 1 ELSE @,
                !.errorCount = IF status = "error" THEN @ + 1 ELSE @,
                !.totalTokens = IF TruthyNum(call, "tokensGenerated")
                                THEN @ + call.tokensGenerated ELSE @]
       IN MapSet(promptMap, "name", updated)

calculatePromptMetrics(log) ==
  LET promptMap == PromptFold(log, <<>>)
  IN [i \in 1..Len(promptMap) |->
        [promptMap[i] EXCEPT
           !.avgDuration = AvgDurationOf(log, "promptName", promptMap[i].name)]]

\* Mutant of SortAsc: the latencies are left in ingestion order.
Unsorted(a) == a

\* [...a].sort((x, y) => x - y): insertion into an ascending sequence.
RECURSIVE InsertAsc(_, _)
InsertAsc(sorted, x) ==
  IF sorted = <<>> THEN <<x>>
  ELSE IF x < Head(sorted) THEN <<x>> \o sorted
       ELSE <<Head(sorted)>> \o InsertAsc(Tail(sorted), x)

RECURSIVE SortAsc(_)
SortAsc(a) == IF a = <<>> THEN <<>> ELSE InsertAsc(SortAsc(Tail(a)), Head(a))

\* Mutant of CeilOfProduct: Math.floor in place of Math.ceil.
FloorOfProduct(n, pct) == (n * pct) \div 100

\* Math.ceil(n * p) for p = pct / 100.  (In IEEE doubles n * 0.5, n * 0.95 and
\* n * 0.99 round to the same ceiling as the exact product for every n up to
\* 20000, so the exact ceiling is what the code computes.)
CeilOfProduct(n, pct) == (n * pct + 99) \div 100

\* Mutant of percentile: the index is not brought down by one, only clamped.
percentileNoOffset(sorted, pct) ==
  IF Len(sorted) = 0 THEN 0
  ELSE LET index == CeilOfProduct(Len(sorted), pct)
       IN sorted[(IF index > Len(sorted) - 1 THEN Len(sorted) - 1 ELSE index) + 1]

\* percentile(sorted, p), p given in percent
percentile(sorted, pct) ==
  IF Len(sorted) = 0 THEN 0
  ELSE LET index == CeilOfProduct(Len(sorted), pct) - 1
       IN sorted[Max(0, index) + 1]

\* requestTimestamps.filter(t => t >= now - window).length
RecentRequests(stamps, t, window) == Len(SelectSeq(stamps, LAMBDA x : x >= t - window))

calculateRequestsPerSecond(stamps, t) == RecentRequests(stamps, t, OneSecondMs)
calculateRequestsPerMinute(stamps, t) == RecentRequests(stamps, t, OneMinuteMs)

calculateAvgDuration(lat) ==
  IF Len(lat) = 0 THEN Frac(0, 1) ELSE Frac(SumSeq(lat), Len(lat))

\* Mutant of calculatePerformance: the rates are left as ratios, not percent.
calculatePerformanceUnscaled(S, t) ==
  LET sortedLatencies == SortAsc(S.latencies)
      total == Len(S.toolCalls) + Len(S.resourceAccesses) + Len(S.promptCalls)
      nerrors == Len(S.errors)
  IN [avgLatency |-> IF Len(sortedLatencies) > 0
                     THEN Frac(SumSeq(sortedLatencies), Len(sortedLatencies))
                     ELSE Frac(0, 1),
      p50Latency |-> percentile(sortedLatencies, 50),
      p95Latency |-> percentile(sortedLatencies, 95),
      p99Latency |-> percentile(sortedLatencies, 99),
      requestsPerSecond |-> calculateRequestsPerSecond(S.requestTimestamps, t),
      errorRate |-> IF total > 0 THEN DblDiv(nerrors, total) ELSE DblOfNat(0),
      successRate |-> IF total > 0 THEN DblDiv(total - nerrors, total) ELSE DblOfNat(100)]

\* Mutant of SortedCopy: this.latencies.sort(...) sorts the stored array.
SortedInPlace(a) == [sorted |-> SortAsc(a), array |-> SortAsc(a)]

\* [...a].sort((x, y) => x - y): the sorted copy, and a itself as it is left.
SortedCopy(a) == [sorted |-> SortAsc(a), array |-> a]

calculatePerformance(S, t) ==
  LET sortedLatencies == SortedCopy(S.latencies).sorted
      total == Len(S.toolCalls) + Len(S.resourceAccesses) + Len(S.promptCalls)
      nerrors == Len(S.errors)
  IN [avgLatency |-> IF Len(sortedLatencies) > 0
                     THEN Frac(SumSeq(sortedLatencies), Len(sortedLatencies))
                     ELSE Frac(0, 1),
      p50Latency |-> percentile(sortedLatencies, 50),
      p95Latency |-> percentile(sortedLatencies, 95),
      p99Latency |-> percentile(sortedLatencies, 99),
      requestsPerSecond |-> calculateRequestsPerSecond(S.requestTimestamps, t),
      errorRate |-> IF total > 0 THEN Percent(nerrors, total) ELSE DblOfNat(0),
      successRate |-> IF total > 0 THEN Percent(total - nerrors, total) ELSE DblOfNat(100)]

CountStatus(log, status) == Len(SelectSeq(log, LAMBDA c : Get(c, "status") = status))

\* getMetrics() called at time t on collector S
getMetrics(S, t) ==
  LET totalRequests == Len(S.toolCalls) + Len(S.resourceAccesses) + Len(S.promptCalls)
      successfulRequests == CountStatus(S.toolCalls, "success")
                            + CountStatus(S.resourceAccesses, "success")
                            + CountStatus(S.promptCalls, "success")
  IN [uptime |-> t - S.startTime,
      totalRequests |-> totalRequests,
      successfulRequests |-> successfulRequests,
      failedRequests |-> totalRequests - successfulRequests,
      avgResponseTime |-> calculateAvgDuration(S.latencies),
      requestsPerMinute |-> calculateRequestsPerMinute(S.requestTimestamps, t),
      tools |-> calculateToolMetrics(S.toolCalls),
      resources |-> calculateResourceMetrics(S.resourceAccesses),
      prompts |-> calculatePromptMetrics(S.promptCalls),
      errors |-> SliceLast(S.errors, ErrorsShown),
      performance |-> calculatePerformance(S, t)]

\* The snapshot a caller of getMetrics() gets in the current state.
Metrics == getMetrics(Cur, now)

\* -------------------------------------------------------------- inputs
\* What a caller may put in the fields the collector is to assign.
ForgedId == 0
ForgedTimestamp == -1

\* With(r, f, v): the object r with property f set to v.
With(r, f, v) == [g \in DOMAIN r \cup {f} |-> IF g = f THEN v ELSE r[g]]

\* The bodies handed to an ingestion operation (by the POST routes, unvalidated,
\* or by a direct call), for each name and status: with a duration (and, for
\* an error, its message), or with the name and the status alone.
Bodies(nameField, names, statuses, durations, messages) ==
  LET base == {[f \in {nameField, "status"} |-> IF f = nameField THEN n ELSE st] :
                 n \in names, st \in statuses}
      timed == {With(b, "duration", d) : b \in {x \in base : x.status # "error"}, d \in durations}
      failed == {With(With(b, "duration", d), "error", e) :
                   b \in {x \in base : x.status = "error"}, d \in durations, e \in messages}
  IN base \cup timed \cup failed

\* A body that also carries the fields the collector is to assign.
Forged(body) == With(With(body, "id", ForgedId), "timestamp", ForgedTimestamp)

\* Bodies that lack the status or the name: express.json() parses any JSON
\* object.
Incomplete(nameField) == {[f \in {nameField} |-> "a"], [status |-> "success"]}

ToolBodies ==
  LET plain == Bodies("toolName", {"a"}, {"pending", "success", "error"}, {10}, {"boom"})
  IN plain \cup {Forged(b) : b \in {x \in plain : x.status = "success"}}
       \cup Incomplete("toolName")
ResourceBodies ==
  {With(b, "operation", "read") :
     b \in Bodies("resourceUri", {"a"}, {"success", "error"}, {10}, {"boom"})}
PromptBodies == Bodies("promptName", {"a"}, {"success", "error"}, {10}, {"boom"})

ClockSkews == 0..1

\* ------------------------------------------------------------- actions
\* observed: what the step just taken showed to its caller and to the
\* observers, for an ingestion made through a route or through the wrapper.
Unobserved == [via |-> "none", listeners |-> 0, ingestions |-> <<>>]

\* A collector just constructed, no server started on it yet.
Constructed ==
  /\ toolCalls = <<>>
  /\ resourceAccesses = <<>>
  /\ promptCalls = <<>>
  /\ errors = <<>>
  /\ latencies = <<>>
  /\ requestTimestamps = <<>>
  /\ startTime = 0
  /\ now = 0
  /\ ticks = 0
  /\ nextId = 1
  /\ lastSweep = 0
  /\ servers = 0
  /\ observed = Unobserved

Init ==
  /\ Constructed
  /\ calls = [i \in 1..MaxCalls |-> [state |-> "idle"]]

\* Time passes between two callbacks of the event loop.
TickSteps == {1, OneSecondMs, OneMinuteMs, RetentionDays * MsPerDay}

Tick ==
  /\ ticks < MaxTicks
  /\ \E step \in TickSteps : now' = now + step
  /\ ticks' = ticks + 1
  /\ UNCHANGED <<collectorVars, nextId, lastSweep, servers, calls>>
  /\ observed' = Unobserved

\* An ingestion operation called directly, from outside the wrapper and the
\* routes.  What was pushed before a throw out of emit stays.
Ingest(S) ==
  /\ Commit(S)
  /\ UNCHANGED <<lastSweep, servers, calls>>
  /\ observed' = Unobserved

CanIngest(d1, d2) == nextId <= MaxIds /\ ticks + d1 + d2 <= MaxTicks

\* A POST route: the body goes to the ingestion operation as it came; 200 when
\* the call returns, 400 when it throws.
Answer(S, body) ==
  /\ Commit(S)
  /\ observed' = [via |-> "route", listeners |-> servers, ingestions |-> S.ingestions,
                  body |-> body, answer |-> IF S.threw THEN 400 ELSE 200]
  /\ UNCHANGED <<lastSweep, servers, calls>>

PostToolCall ==
  \E body \in ToolBodies, d1, d2 \in ClockSkews :
    /\ CanIngest(d1, d2)
    /\ Answer(recordToolCall(Cur, body, d1, d2), body)

PostResourceAccess ==
  \E body \in ResourceBodies, d1, d2 \in ClockSkews :
    /\ CanIngest(d1, d2)
    /\ Answer(recordResourceAccess(Cur, body, d1, d2), body)

PostPromptCall ==
  \E body \in PromptBodies, d1, d2 \in ClockSkews :
    /\ CanIngest(d1, d2)
    /\ Answer(recordPromptCall(Cur, body, d1, d2), body)

cleanupStrictlyNewer(S) ==
  LET retentionMs == RetentionDays * MsPerDay
      cutoff == S.clock - retentionMs
      Fresh(c) == c.timestamp > cutoff
  IN [S EXCEPT
        !.toolCalls = SelectSeq(@, Fresh),
        !.resourceAccesses = SelectSeq(@, Fresh),
        !.promptCalls = SelectSeq(@, Fresh),
        !.errors = SelectSeq(@, Fresh),
        !.latencies = SliceLast(@, LatencyCap),
        !.requestTimestamps = SelectSeq(@, LAMBDA t : t > cutoff)]

\* Mutant of cleanup: the duration log keeps its oldest entries.
cleanupKeepingOldest(S) ==
  LET retentionMs == RetentionDays * MsPerDay
      cutoff == S.clock - retentionMs
      Fresh(c) == c.timestamp >= cutoff
  IN [S EXCEPT
        !.toolCalls = SelectSeq(@, Fresh),
        !.resourceAccesses = SelectSeq(@, Fresh),
        !.promptCalls = SelectSeq(@, Fresh),
        !.errors = SelectSeq(@, Fresh),
        !.latencies = SubSeq(@, 1, IF Len(@) < LatencyCap THEN Len(@) ELSE LatencyCap),
        !.requestTimestamps = SelectSeq(@, LAMBDA t : t >= cutoff)]

cleanup(S) ==
  LET retentionMs == RetentionDays * MsPerDay
      cutoff == S.clock - retentionMs
      Fresh(c) == c.timestamp >= cutoff
  IN [S EXCEPT
        !.toolCalls = SelectSeq(@, Fresh),
        !.resourceAccesses = SelectSeq(@, Fresh),
        !.promptCalls = SelectSeq(@, Fresh),
        !.errors = SelectSeq(@, Fresh),
        !.latencies = SliceLast(@, LatencyCap),
        !.requestTimestamps = SelectSeq(@, LAMBDA t : t >= cutoff)]

\* The setInterval callback of the constructor: no sooner than the interval
\* after the previous run.
Cleanup ==
  /\ now >= lastSweep + CleanupIntervalMs
  /\ Commit(cleanup(Cur))
  /\ lastSweep' = now
  /\ UNCHANGED <<servers, calls>>
  /\ observed' = Unobserved

\* Mutant of reset: the latencies are not cleared.
resetKeepingLatencies(S) ==
  [S EXCEPT !.toolCalls = <<>>, !.resourceAccesses = <<>>, !.promptCalls = <<>>,
            !.errors = <<>>, !.requestTimestamps = <<>>, !.startTime = S.clock]

reset(S) ==
  [S EXCEPT !.toolCalls = <<>>, !.resourceAccesses = <<>>, !.promptCalls = <<>>,
            !.errors = <<>>, !.latencies = <<>>, !.requestTimestamps = <<>>,
            !.startTime = S.clock]

Reset ==
  /\ Commit(reset(Cur))
  /\ UNCHANGED <<lastSweep, servers, calls>>
  /\ observed' = Unobserved

\* ------------------------------------------------------------ the wrapper
JsNull == JsVal("null", <<>>)
JsZero == JsVal("number", <<"0">>)
JsFalse == JsVal("boolean", <<"false">>)
Truthy(v) == v \notin {JsUndefined, JsNull, JsZero, JsFalse, JsStr(<<>>)}

\* args[0] || {}
FirstArgOrEmpty(args) ==
  IF Len(args) > 0 /\ Truthy(args[1]) THEN args[1] ELSE EmptyObj

\* What the wrapped call settles with.
Resolved(v) == [state |-> "resolved", value |-> v]
Rejected(e) == [state |-> "rejected", error |-> e]

\* The TypeError JSON.stringify throws inside a listener.
ListenerError == [message |-> "not serialisable"]

\* The ingestion operation a wrapper of the kind calls.
record(kind, S, body, d1, d2) ==
  CASE kind = "tool" -> recordToolCall(S, body, d1, d2)
    [] kind = "resource" -> recordResourceAccess(S, body, d1, d2)
    [] kind = "prompt" -> recordPromptCall(S, body, d1, d2)

\* Mutant of Catch: the failure is rethrown before the event is reported.
CatchRethrowsFirst(S, kind, base, startedAt, error, d1, d2) ==
  [S |-> [S EXCEPT !.threw = FALSE], reports |-> <<>>, settled |-> Rejected(error)]

\* The catch block of a wrapper: error is what was thrown in the try block, by
\* the original or by the ingestion call of the success path; base are the
\* fields every event of this wrapper carries.
Catch(S, kind, base, startedAt, error, d1, d2) ==
  LET duration == S.clock - startedAt
      body == With(With(With(base, "duration", duration), "status", "error"),
                   "error", error.message)
      T == record(kind, [S EXCEPT !.threw = FALSE], body, d1, d2)
  IN [S |-> T, reports |-> <<body>>,
      settled |-> IF T.threw THEN Rejected(ListenerError) ELSE Rejected(error)]

\* The continuation of a wrapper after `await original(...args)`: outcome is
\* how the original settled; more are the fields of the success event beyond
\* base.  reports: the bodies handed to the ingestion operation, in order.
Settle(S, kind, base, more, startedAt, outcome, d1, d2) ==
  IF outcome.ok
  THEN LET duration == S.clock - startedAt
           body == With(With(Spread(base, more), "duration", duration), "status", "success")
           T == record(kind, S, body, d1, d2)
       IN IF T.threw
          THEN LET C == Catch(T, kind, base, startedAt, ListenerError, d1, d2)
               IN [C EXCEPT !.reports = <<body>> \o @]
          ELSE [S |-> T, reports |-> <<body>>, settled |-> Resolved(outcome.value)]
  ELSE Catch(S, kind, base, startedAt, outcome.error, d1, d2)

\* result.length of a string result, else 0
BytesOf(result) == IF result.t = "string" THEN Len(result.s) ELSE 0

\* result.split(/\s+/).length of a string result, else 0: one piece more than
\* the runs of whitespace in it.
RECURSIVE WhitespaceRuns(_)
WhitespaceRuns(chars) ==
  IF chars = <<>> THEN 0
  ELSE IF Head(chars) = " " /\ (Len(chars) = 1 \/ chars[2] # " ")
       THEN 1 + WhitespaceRuns(Tail(chars))
       ELSE WhitespaceRuns(Tail(chars))

TokensOf(result) == IF result.t = "string" THEN WhitespaceRuns(result.s) + 1 ELSE 0

wrapTool(S, name, args, startedAt, outcome, d1, d2) ==
  Settle(S, "tool", [toolName |-> name, params |-> FirstArgOrEmpty(args)],
         IF outcome.ok THEN [result |-> outcome.value] ELSE <<>>,
         startedAt, outcome, d1, d2)

wrapResource(S, name, args, startedAt, outcome, d1, d2) ==
  Settle(S, "resource", [resourceUri |-> name, operation |-> "read"],
         IF outcome.ok THEN [bytesTransferred |-> BytesOf(outcome.value)] ELSE <<>>,
         startedAt, outcome, d1, d2)

wrapPrompt(S, name, args, startedAt, outcome, d1, d2) ==
  Settle(S, "prompt", [promptName |-> name, args |-> FirstArgOrEmpty(args)],
         IF outcome.ok THEN [tokensGenerated |-> TokensOf(outcome.value)] ELSE <<>>,
         startedAt, outcome, d1, d2)

Kinds == {"tool", "resource", "prompt"}
ArgLists == {<<>>, <<SomeObj>>, <<CyclicObj>>}
Results == {SomeObj, CyclicObj, JsStr(<<"a", " ", "b">>)}
Failures == {[message |-> "boom"]}
Outcomes == {[ok |-> TRUE, value |-> v] : v \in Results}
            \cup {[ok |-> FALSE, error |-> e] : e \in Failures}

\* A caller invokes a wrapped capability: the wrapper reads the clock and
\* awaits the original.
InvokeWith(i, kinds, names, argLists) ==
  /\ calls[i].state = "idle"
  /\ \A j \in 1..(i - 1) : calls[j].state # "idle"
  /\ \E kind \in kinds, name \in names, args \in argLists :
       calls' = [calls EXCEPT ![i] = [state |-> "running", kind |-> kind, name |-> name,
                                      args |-> args, startTime |-> now]]
  /\ UNCHANGED <<collectorVars, now, ticks, nextId, lastSweep, servers>>
  /\ observed' = Unobserved

Invoke(i) == InvokeWith(i, Kinds, {"a"}, ArgLists)

\* The original settles and the wrapper runs to its end.
CompleteWith(i, outcomes, skews) ==
  /\ calls[i].state = "running"
  /\ \E outcome \in outcomes, d1, d2 \in skews :
       /\ ticks + d1 + d2 <= MaxTicks
       /\ LET c == calls[i]
              R == CASE c.kind = "tool" ->
                          wrapTool(Cur, c.name, c.args, c.startTime, outcome, d1, d2)
                     [] c.kind = "resource" ->
                          wrapResource(Cur, c.name, c.args, c.startTime, outcome, d1, d2)
                     [] c.kind = "prompt" ->
                          wrapPrompt(Cur, c.name, c.args, c.startTime, outcome, d1, d2)
          IN /\ Commit(R.S)
             /\ calls' = [calls EXCEPT ![i] =
                            Spread(R.settled, [kind |-> c.kind, original |-> outcome,
                                               reports |-> R.reports])]
             /\ observed' = [via |-> "wrapper", listeners |-> servers,
                             ingestions |-> R.S.ingestions]
  /\ UNCHANGED <<lastSweep, servers>>

Complete(i) == nextId <= MaxIds /\ CompleteWith(i, Outcomes, ClockSkews)

\* MonitorServer.start of one more server on the collector: its four listeners
\* are attached after those already there.
ServerStart ==
  /\ servers < MaxServers
  /\ servers' = servers + 1
  /\ UNCHANGED <<collectorVars, now, ticks, nextId, lastSweep, calls>>
  /\ observed' = Unobserved

\* The collector as getMetrics leaves it: the duration log after the sort of
\* calculatePerformance; the slices, filters and reductions read only.
afterGetMetrics(S) == [S EXCEPT !.latencies = SortedCopy(@).array]

\* getMetrics / exportMetrics: the caller gets Metrics (exportMetrics, its
\* JSON text).
GetMetrics ==
  /\ Metrics.totalRequests >= 0
  /\ Commit(afterGetMetrics(Cur))
  /\ UNCHANGED <<lastSweep, servers, calls>>
  /\ observed' = Unobserved

Next ==
  \/ Tick
  \/ PostToolCall
  \/ PostResourceAccess
  \/ PostPromptCall
  \/ Cleanup
  \/ Reset
  \/ ServerStart
  \/ GetMetrics
  \/ \E i \in 1..MaxCalls : Invoke(i)
  \/ \E i \in 1..MaxCalls : Complete(i)

Spec == Init /\ [][Next]_vars

\* ------------------------------------------- direct calls, as the tests make
StoredEvents == Len(toolCalls) + Len(resourceAccesses) + Len(promptCalls)

AggregateToolBodies ==
  Bodies("toolName", {"a", "b"}, {"pending", "success", "error"}, {10, 30}, {"boom"})
AggregateResourceBodies ==
  {With(b, "operation", "read") :
     b \in Bodies("resourceUri", {"a"}, {"success", "error"}, {10}, {"boom"})}
AggregatePromptBodies == Bodies("promptName", {"a"}, {"success", "error"}, {10}, {"boom"})

RecordTool ==
  /\ StoredEvents < MaxLog
  /\ \E body \in AggregateToolBodies : Ingest(recordToolCall(Cur, body, 0, 0))

RecordResource ==
  /\ StoredEvents < MaxLog
  /\ \E body \in AggregateResourceBodies : Ingest(recordResourceAccess(Cur, body, 0, 0))

RecordPrompt ==
  /\ StoredEvents < MaxLog
  /\ \E body \in AggregatePromptBodies : Ingest(recordPromptCall(Cur, body, 0, 0))

NextAggregate == RecordTool \/ RecordResource \/ RecordPrompt \/ GetMetrics

SpecAggregate == Init /\ [][NextAggregate]_vars

\* 'Can calculate success rate': calls of one tool, successes of 100 ms and
\* failures of 50 ms.
RateBodies ==
  {[toolName |-> "tool", params |-> EmptyObj, status |-> "success", duration |-> 100],
   [toolName |-> "tool", params |-> EmptyObj, status |-> "error", error |-> "Test error",
    duration |-> 50]}

RecordRated ==
  /\ Len(toolCalls) < MaxRateLog
  /\ \E body \in RateBodies : Ingest(recordToolCall(Cur, body, 0, 0))

NextRate == RecordRated \/ GetMetrics

SpecRate == Init /\ [][NextRate]_vars

\* 'Can calculate performance metrics': successful calls of one tool with given
\* latencies.  The latencies come in any order from a small set while the log
\* is short, or replay the list of the test, or run down from MaxLongLog to 1.
TestDurations == <<10, 20, 30, 40, 50, 100, 200, 300, 400, 500>>
SampleDurations == {-5, 10, 30}
LongRun == [i \in 1..MaxLongLog |-> MaxLongLog + 1 - i]

IsProperPrefix(s, t) == Len(s) < Len(t) /\ s = SubSeq(t, 1, Len(s))

NextDurations ==
  (IF Len(latencies) < MaxShortLog THEN SampleDurations ELSE {})
  \cup (IF IsProperPrefix(latencies, TestDurations)
        THEN {TestDurations[Len(latencies) + 1]} ELSE {})
  \cup (IF IsProperPrefix(latencies, LongRun)
        THEN {LongRun[Len(latencies) + 1]} ELSE {})

RecordTimed ==
  /\ nextId <= MaxLongLog
  /\ \E d \in NextDurations :
       Ingest(recordToolCall(Cur, [toolName |-> "test-tool", params |-> EmptyObj,
                                   status |-> "success", duration |-> d], 0, 0))

\* More than a retention period passes between two calls, so that the sweep
\* that follows drops every event stored before (and leaves the latencies).
RetentionPasses ==
  /\ ticks < MaxTicks
  /\ now' = now + RetentionDays * MsPerDay + 1
  /\ ticks' = ticks + 1
  /\ UNCHANGED <<collectorVars, nextId, lastSweep, servers, calls>>
  /\ observed' = Unobserved

NextLatency == RecordTimed \/ RetentionPasses \/ Cleanup \/ Reset \/ GetMetrics

SpecLatency == Init /\ [][NextLatency]_vars

\* 'Can reset metrics': direct calls of the three ingestion operations, of
\* every status, the passing of time and resets.
ResetToolBodies ==
  {[toolName |-> "test", params |-> EmptyObj, status |-> "success", duration |-> 100],
   [toolName |-> "test", params |-> EmptyObj, status |-> "error", error |-> "boom",
    duration |-> 50],
   [toolName |-> "test", params |-> EmptyObj, status |-> "pending"]}
ResetResourceBodies ==
  {[resourceUri |-> "a", operation |-> "read", status |-> "success", duration |-> 10]}
ResetPromptBodies ==
  {[promptName |-> "a", args |-> EmptyObj, status |-> "error", error |-> "boom"]}

DirectToolCall ==
  /\ nextId <= MaxIds
  /\ \E body \in ResetToolBodies : Ingest(recordToolCall(Cur, body, 0, 0))

DirectResourceAccess ==
  /\ nextId <= MaxIds
  /\ \E body \in ResetResourceBodies : Ingest(recordResourceAccess(Cur, body, 0, 0))

DirectPromptCall ==
  /\ nextId <= MaxIds
  /\ \E body \in ResetPromptBodies : Ingest(recordPromptCall(Cur, body, 0, 0))

NextReset ==
  DirectToolCall \/ DirectResourceAccess \/ DirectPromptCall \/ Tick \/ Reset \/ GetMetrics

SpecReset == Init /\ [][NextReset]_vars

\* Retention: direct calls whose clock reads may differ by a millisecond, the
\* passing of a millisecond or of a retention period, and the periodic sweep.
SweepToolBodies ==
  {[toolName |-> "a", params |-> EmptyObj, status |-> "success", duration |-> 100],
   [toolName |-> "a", params |-> EmptyObj, status |-> "error", error |-> "boom",
    duration |-> 50]}
SweepResourceBodies ==
  {[resourceUri |-> "a", operation |-> "read", status |-> "error", error |-> "boom"]}
SweepPromptBodies ==
  {[promptName |-> "a", args |-> EmptyObj, status |-> "success", duration |-> 10]}

CanRecordSwept(d1, d2) == nextId <= MaxSweepIds /\ ticks + d1 + d2 <= MaxSweepTicks

SweptToolCall ==
  \E body \in SweepToolBodies, d1, d2 \in ClockSkews :
    /\ CanRecordSwept(d1, d2)
    /\ Ingest(recordToolCall(Cur, body, d1, d2))

SweptResourceAccess ==
  \E body \in SweepResourceBodies, d1, d2 \in ClockSkews :
    /\ CanRecordSwept(d1, d2)
    /\ Ingest(recordResourceAccess(Cur, body, d1, d2))

SweptPromptCall ==
  \E body \in SweepPromptBodies, d1, d2 \in ClockSkews :
    /\ CanRecordSwept(d1, d2)
    /\ Ingest(recordPromptCall(Cur, body, d1, d2))

SweepTickSteps == {1, RetentionDays * MsPerDay}

SweepTick ==
  /\ ticks < MaxSweepTicks
  /\ \E step \in SweepTickSteps : now' = now + step
  /\ ticks' = ticks + 1
  /\ UNCHANGED <<collectorVars, nextId, lastSweep, servers, calls>>
  /\ observed' = Unobserved

NextSweep ==
  SweptToolCall \/ SweptResourceAccess \/ SweptPromptCall \/ SweepTick \/ Cleanup
  \/ GetMetrics

SpecSweep == Init /\ [][NextSweep]_vars

\* A long run of failed calls, so that the error log outgrows what a snapshot
\* shows, with the sweep that follows a retention period.
FailedCall == [toolName |-> "a", params |-> EmptyObj, status |-> "error", error |-> "boom"]

RecordFailed ==
  /\ nextId < 2 * MaxErrorLog
  /\ Ingest(recordToolCall(Cur, FailedCall, 0, 0))

\* More than a retention period passes once the error log has outgrown what a
\* snapshot shows.
ErrorsAge ==
  /\ Len(errors) > ErrorsShown
  /\ RetentionPasses

NextErrors == RecordFailed \/ ErrorsAge \/ Cleanup \/ GetMetrics

SpecErrors == Init /\ [][NextErrors]_vars

\* 'Different tool types are tracked separately': tools of several names, and
\* a resource and a prompt that share a name with one of the tools.
NamedToolBodies ==
  {[toolName |-> n, params |-> EmptyObj, status |-> "success", duration |-> 100] :
     n \in {"a", "b", "c"}}
  \cup {[toolName |-> "b", params |-> EmptyObj, status |-> "error", error |-> "boom",
         duration |-> 200]}
NamedResourceBodies ==
  {[resourceUri |-> "a", operation |-> "read", status |-> "success", duration |-> 10,
    bytesTransferred |-> 5],
   [resourceUri |-> "b", operation |-> "read", status |-> "error", error |-> "boom"]}
NamedPromptBodies ==
  {[promptName |-> "a", args |-> EmptyObj, status |-> "success", duration |-> 10,
    tokensGenerated |-> 2]}

NamedToolCall ==
  /\ StoredEvents < MaxLog
  /\ \E body \in NamedToolBodies : Ingest(recordToolCall(Cur, body, 0, 0))

NamedResourceAccess ==
  /\ StoredEvents < MaxLog
  /\ \E body \in NamedResourceBodies : Ingest(recordResourceAccess(Cur, body, 0, 0))

NamedPromptCall ==
  /\ StoredEvents < MaxLog
  /\ \E body \in NamedPromptBodies : Ingest(recordPromptCall(Cur, body, 0, 0))

NextNames == NamedToolCall \/ NamedResourceAccess \/ NamedPromptCall \/ GetMetrics

SpecNames == Init /\ [][NextNames]_vars

\* Failed events of the three kinds whose error string is a message, the empty
\* string, or missing, among successful ones.
FailedWith(base) ==
  {With(b, "status", "error") : b \in {base, With(base, "error", "boom"), With(base, "error", "")}}

FailureToolBodies ==
  FailedWith([toolName |-> "a", params |-> EmptyObj, duration |-> 50])
  \cup {[toolName |-> "a", params |-> EmptyObj, status |-> "success", duration |-> 100]}
FailureResourceBodies == FailedWith([resourceUri |-> "r", operation |-> "read"])
FailurePromptBodies == FailedWith([promptName |-> "p", args |-> EmptyObj])

FailingToolCall ==
  /\ StoredEvents < MaxLog
  /\ \E body \in FailureToolBodies : Ingest(recordToolCall(Cur, body, 0, 0))

FailingResourceAccess ==
  /\ StoredEvents < MaxLog
  /\ \E body \in FailureResourceBodies : Ingest(recordResourceAccess(Cur, body, 0, 0))

FailingPromptCall ==
  /\ StoredEvents < MaxLog
  /\ \E body \in FailurePromptBodies : Ingest(recordPromptCall(Cur, body, 0, 0))

NextFailures == FailingToolCall \/ FailingResourceAccess \/ FailingPromptCall \/ GetMetrics

SpecFailures == Init /\ [][NextFailures]_vars

\* Wrapped invocations running side by side on one collector, with the sweep,
\* reset and the servers' listeners: each await of a wrapper is a point where
\* any other callback of the event loop may run.
MaxFlights == 2

InitCalls ==
  /\ Constructed
  /\ calls = [i \in 1..MaxFlights |-> [state |-> "idle"]]

\* Each flight is one invocation of a wrapped tool of its own name.
FlightNames == <<"a", "b", "c", "d">>
FlightOutcomes ==
  {[ok |-> TRUE, value |-> SomeObj], [ok |-> TRUE, value |-> CyclicObj],
   [ok |-> FALSE, error |-> [message |-> "boom"]]}

StartFlight == \E i \in 1..MaxFlights : InvokeWith(i, {"tool"}, {FlightNames[i]}, {<<>>})

LandFlight == \E i \in 1..MaxFlights : CompleteWith(i, FlightOutcomes, {0})

FlightTickSteps == {OneMinuteMs, RetentionDays * MsPerDay + 1}

FlightTick ==
  /\ ticks < MaxTicks
  /\ \E step \in FlightTickSteps : now' = now + step
  /\ ticks' = ticks + 1
  /\ UNCHANGED <<collectorVars, nextId, lastSweep, servers, calls>>
  /\ observed' = Unobserved

\* The one monitor server of the process starts on the collector.
FlightServerStart == servers = 0 /\ ServerStart

NextCalls ==
  StartFlight \/ LandFlight \/ FlightTick \/ Cleanup \/ FlightServerStart \/ GetMetrics

SpecCalls == InitCalls /\ [][NextCalls]_vars

\* The same, with reset() called at any moment between the callbacks.
NextCallsReset == NextCalls \/ Reset

SpecCallsReset == InitCalls /\ [][NextCallsReset]_vars

\* Wrapped tools and prompts called with argument lists whose first argument
\* is an object, a falsy value, or missing.
SuppliedArgLists ==
  {<<>>, <<SomeObj>>, <<JsZero>>, <<JsStr(<<>>)>>, <<JsFalse>>, <<JsNull>>,
   <<JsZero, SomeObj>>}

CallWithArgs ==
  \E i \in 1..MaxFlights : InvokeWith(i, {"tool", "prompt"}, {"a"}, SuppliedArgLists)

ReturnToCaller == \E i \in 1..MaxFlights : CompleteWith(i, FlightOutcomes, {0})

NextArgs == CallWithArgs \/ ReturnToCaller \/ GetMetrics

SpecArgs == InitCalls /\ [][NextArgs]_vars

\* Wrapped prompts and resources whose original resolves with a string, empty,
\* blank, padded or plain, or with something that is not a string.
StringResults ==
  {JsStr(<<>>), JsStr(<<" ">>), JsStr(<<"a">>), JsStr(<<" ", "a">>), JsStr(<<"a", " ">>),
   JsStr(<<"a", " ", "b">>), JsStr(<<"a", " ", " ", "b">>), SomeObj}

ResultOutcomes == {[ok |-> TRUE, value |-> v] : v \in StringResults}

CallForResult ==
  \E i \in 1..MaxFlights : InvokeWith(i, {"prompt", "resource"}, {"a"}, {<<>>})

ReturnResult == \E i \in 1..MaxFlights : CompleteWith(i, ResultOutcomes, {0})

NextResults == CallForResult \/ ReturnResult \/ GetMetrics

SpecResults == InitCalls /\ [][NextResults]_vars

\* A collector whose duration log is at its cap.  It starts as the first sweep
\* leaves a collector that took n calls of durations 1..n at time 0 and was
\* swept one retention period later: the events and timestamps are gone, the
\* n durations are all there.  From there: more calls, time, sweeps.
MaxOverCap == 2

InitAtCap ==
  /\ \E n \in {LatencyCap - 1, LatencyCap} :
       /\ latencies = [i \in 1..n |-> i]
       /\ nextId = n + 1
  /\ toolCalls = <<>>
  /\ resourceAccesses = <<>>
  /\ promptCalls = <<>>
  /\ errors = <<>>
  /\ requestTimestamps = <<>>
  /\ startTime = 0
  /\ now = RetentionDays * MsPerDay + 1
  /\ lastSweep = RetentionDays * MsPerDay + 1
  /\ ticks = 0
  /\ servers = 0
  /\ observed = Unobserved
  /\ calls = [i \in 1..MaxCalls |-> [state |-> "idle"]]

CapDurations == {0, 7}

RecordOverCap ==
  /\ nextId <= LatencyCap + MaxOverCap
  /\ \E d \in CapDurations :
       Ingest(recordToolCall(Cur, [toolName |-> "a", params |-> EmptyObj,
                                   status |-> "success", duration |-> d], 0, 0))

CapTickSteps == {OneMinuteMs, RetentionDays * MsPerDay + 1}

CapTick ==
  /\ ticks < MaxTicks
  /\ \E step \in CapTickSteps : now' = now + step
  /\ ticks' = ticks + 1
  /\ UNCHANGED <<collectorVars, nextId, lastSweep, servers, calls>>
  /\ observed' = Unobserved

NextCap == RecordOverCap \/ CapTick \/ Cleanup

SpecCap == InitAtCap /\ [][NextCap]_vars

\* =============================================================== claims
Settled(c) == c.state \in {"resolved", "rejected"}

\* Number of positions of log whose record satisfies Test.
CountWhere(log, Test(_)) == Cardinality({i \in 1..Len(log) : Test(log[i])})

Range(f) == {f[i] : i \in DOMAIN f}

AllEvents == toolCalls \o resourceAccesses \o promptCalls

\* C1: a wrapped call whose original completed with value V resolves with that
\* same V, after exactly one ingestion call, of a success event.
C1_TransparentOnSuccess ==
  \A i \in 1..MaxCalls :
    (Settled(calls[i]) /\ calls[i].original.ok) =>
      /\ calls[i].state = "resolved"
      /\ calls[i].value = calls[i].original.value
      /\ Len(calls[i].reports) = 1
      /\ calls[i].reports[1].status = "success"

\* C2: a wrapped call whose original failed with error E rejects with that same
\* E, after exactly one ingestion call, of an error event carrying E's message.
C2_TransparentOnFailure ==
  \A i \in 1..MaxCalls :
    (Settled(calls[i]) /\ ~calls[i].original.ok) =>
      /\ calls[i].state = "rejected"
      /\ calls[i].error = calls[i].original.error
      /\ Len(calls[i].reports) = 1
      /\ calls[i].reports[1].status = "error"
      /\ calls[i].reports[1].error = calls[i].original.error.message

\* C3: the id of every stored record is one the collector drew (1 .. nextId - 1)
\* and its timestamp a reading of the collector's clock (0 .. now), never a
\* value the caller supplied.
C3_EngineAssignsIdAndTimestamp ==
  \A i \in 1..Len(AllEvents) :
    /\ AllEvents[i].id \in 1..(nextId - 1)
    /\ AllEvents[i].timestamp \in 0..now

\* C4: for every name whose stored events are N successes and M errors, the
\* aggregate of the name has callCount = N + M, successCount = N, errorCount = M
\* and avgDuration the mean of the durations supplied for the name (0 for none).
AggregateAgrees(log, nameField, list, keyField, countField) ==
  \A n \in {Get(log[i], nameField) : i \in 1..Len(log)} :
    LET IsOfName(c) == Get(c, nameField) = n
        N == CountWhere(log, LAMBDA c : IsOfName(c) /\ Get(c, "status") = "success")
        M == CountWhere(log, LAMBDA c : IsOfName(c) /\ Get(c, "status") = "error")
        timed == SelectSeq(log, LAMBDA c : IsOfName(c) /\ Has(c, "duration"))
        total == SumSeq([i \in 1..Len(timed) |-> timed[i].duration])
        entries == {i \in 1..Len(list) : list[i][keyField] = n}
    IN CountWhere(log, IsOfName) = N + M =>
         /\ Cardinality(entries) = 1
         /\ \A i \in entries :
              /\ list[i][countField] = N + M
              /\ list[i].successCount = N
              /\ list[i].errorCount = M
              /\ M = 0 => list[i].successCount = list[i][countField]
              /\ IF Len(timed) = 0 THEN list[i].avgDuration.num = 0
                 ELSE list[i].avgDuration.num * Len(timed) = total * list[i].avgDuration.den

C4_PerNameAggregates ==
  /\ AggregateAgrees(toolCalls, "toolName", Metrics.tools, "name", "callCount")
  /\ AggregateAgrees(resourceAccesses, "resourceUri", Metrics.resources, "uri", "accessCount")
  /\ AggregateAgrees(promptCalls, "promptName", Metrics.prompts, "name", "callCount")

\* Two successes and a failure of tool "a", of 10, 30 and 10 ms: mean 50/3.
C4_Witness ==
  /\ Len(toolCalls) = 3
  /\ \E i \in 1..Len(Metrics.tools) :
       /\ Metrics.tools[i].name = "a"
       /\ Metrics.tools[i].callCount = 3
       /\ Metrics.tools[i].successCount = 2
       /\ Metrics.tools[i].errorCount = 1
       /\ FracEq(Metrics.tools[i].avgDuration, Frac(50, 3))

\* C5: totalRequests is the number of stored events of the three logs,
\* successfulRequests the number of those with status success and
\* failedRequests the number of those with status error.
C5_RequestCounts ==
  /\ Metrics.totalRequests = Len(AllEvents)
  /\ Metrics.successfulRequests = CountWhere(AllEvents, LAMBDA c : Get(c, "status") = "success")
  /\ Metrics.failedRequests = CountWhere(AllEvents, LAMBDA c : Get(c, "status") = "error")

\* x - y - borrow of two long numbers; the borrow left over when x < y.
RECURSIVE SubLimbs(_, _, _)
SubLimbs(x, y, borrow) ==
  IF x = <<>> /\ y = <<>> THEN [limbs |-> <<>>, borrow |-> borrow]
  ELSE LET t == Limb(x, 1) - Limb(y, 1) - borrow
           rest == SubLimbs(IF x = <<>> THEN x ELSE Tail(x),
                            IF y = <<>> THEN y ELSE Tail(y),
                            IF t < 0 THEN 1 ELSE 0)
       IN [limbs |-> <<IF t < 0 THEN t + LimbBase ELSE t>> \o rest.limbs,
           borrow |-> rest.borrow]

\* x - y of two doubles, x >= y; [negative |-> TRUE] when x < y.
DblSub(x, y) ==
  IF IsZero(y) THEN x
  ELSE IF IsZero(x) THEN [negative |-> TRUE]
  ELSE LET lsbX == x.e - MantissaBits + 1
           lsbY == y.e - MantissaBits + 1
           lsb == IF lsbX <= lsbY THEN lsbX ELSE lsbY
           d == SubLimbs(ShiftLeft(x.m, lsbX - lsb), ShiftLeft(y.m, lsbY - lsb), 0)
       IN IF d.borrow = 1 THEN [negative |-> TRUE]
          ELSE RoundToDouble(d.limbs, lsb, FALSE)

\* The statement of C6 as written: errorRate = (size of the error log /
\* totalRequests) * 100 and successRate = 100 - errorRate, 0 and 100 with no
\* requests.
C6_AsClaimed ==
  LET M == Metrics
      P == M.performance
  IN /\ M.totalRequests = 0 =>
          /\ P.errorRate = DblOfNat(0)
          /\ P.successRate = DblOfNat(100)
     /\ M.totalRequests > 0 =>
          /\ P.errorRate = DblMulNat(DblDiv(Len(errors), M.totalRequests), 100)
          /\ P.successRate = DblSub(DblOfNat(100), P.errorRate)

\* x and y differ by less than 2^-40.
Close(x, y) ==
  LET d == DblSub(x, y)
      diff == IF "negative" \in DOMAIN d THEN DblSub(y, x) ELSE d
  IN IsZero(diff) \/ diff.e < -40

\* C6: errorRate = (size of the error log / totalRequests) * 100 and
\* successRate = ((totalRequests - size of the error log) / totalRequests) * 100,
\* which is 100 - errorRate up to the rounding of the two products; 0 and 100
\* with no requests; 8 successes and 2 failures give exactly 20 and 80.
C6_Rates ==
  LET M == Metrics
      P == M.performance
  IN /\ M.totalRequests = 0 =>
          /\ P.errorRate = DblOfNat(0)
          /\ P.successRate = DblOfNat(100)
     /\ M.totalRequests > 0 =>
          /\ P.errorRate = DblMulNat(DblDiv(Len(errors), M.totalRequests), 100)
          /\ P.successRate =
               DblMulNat(DblDiv(M.totalRequests - Len(errors), M.totalRequests), 100)
          /\ Close(P.successRate, DblSub(DblOfNat(100), P.errorRate))
     /\ (/\ CountWhere(toolCalls, LAMBDA c : c.status = "success") = 8
         /\ CountWhere(toolCalls, LAMBDA c : c.status = "error") = 2) =>
          /\ P.errorRate = DblOfNat(20)
          /\ P.successRate = DblOfNat(80)
          /\ P.successRate = DblSub(DblOfNat(100), P.errorRate)

C6_Witness ==
  /\ CountWhere(toolCalls, LAMBDA c : c.status = "success") = 8
  /\ CountWhere(toolCalls, LAMBDA c : c.status = "error") = 2
  /\ Len(errors) = 2

\* v is the nearest-rank percentile pct of log: with r the least integer with
\* r >= n * pct / 100, at least r entries are <= v and fewer than r are < v.
IsNearestRank(log, pct, v) ==
  LET n == Len(log)
      r == CHOOSE k \in 0..n : k * 100 >= n * pct /\ (k - 1) * 100 < n * pct
  IN /\ \E i \in 1..n : log[i] = v
     /\ Cardinality({i \in 1..n : log[i] <= v}) >= r
     /\ Cardinality({i \in 1..n : log[i] < v}) < r

TenCallsIngested ==
  /\ Len(toolCalls) = 10
  /\ [i \in 1..10 |-> toolCalls[i].duration] = TestDurations
  /\ latencies = TestDurations

C9_PercentilesMonotone ==
  LET P == Metrics.performance
  IN Len(latencies) > 0 =>
       /\ P.p50Latency <= P.p95Latency
       /\ P.p95Latency <= P.p99Latency

\* After a sweep and a reset, a log out of ascending order with p50 < p99.
C9_Witness ==
  /\ lastSweep > 0
  /\ startTime > 0
  /\ Len(latencies) > 1
  /\ latencies # SortAsc(latencies)
  /\ Metrics.performance.p50Latency < Metrics.performance.p99Latency

\* Every count, rate per time and latency of snapshot M is 0 and its lists are
\* empty.
ZeroSnapshot(M) ==
  /\ M.totalRequests = 0 /\ M.successfulRequests = 0 /\ M.failedRequests = 0
  /\ M.requestsPerMinute = 0 /\ M.performance.requestsPerSecond = 0
  /\ M.avgResponseTime.num = 0 /\ M.performance.avgLatency.num = 0
  /\ M.performance.p50Latency = 0 /\ M.performance.p95Latency = 0
  /\ M.performance.p99Latency = 0
  /\ M.tools = <<>> /\ M.resources = <<>> /\ M.prompts = <<>> /\ M.errors = <<>>

\* C10: the snapshot taken after a reset, at once or any time later with no
\* ingestion in between, is zero on every field, and its uptime is the time since
\* the reset.
C10_ResetZeroes ==
  [][Reset =>
       /\ ZeroSnapshot(getMetrics(Cur', now')) /\ getMetrics(Cur', now').uptime = 0
       /\ \A step \in TickSteps :
            /\ ZeroSnapshot(getMetrics(Cur', now' + step))
            /\ getMetrics(Cur', now' + step).uptime = step]_vars

\* A reset has just emptied logs that ingestions had filled, after time passed.
C10_Witness ==
  /\ nextId > 1
  /\ now > 0
  /\ startTime = now
  /\ Len(AllEvents) = 0 /\ errors = <<>> /\ latencies = <<>> /\ requestTimestamps = <<>>
  /\ ZeroSnapshot(Metrics)

\* The positions of log whose timestamp (stamps[i]) is at or after cutoff.
FreshPositions(stamps, cutoff) == {i \in 1..Len(stamps) : stamps[i] >= cutoff}

\* after holds exactly the entries of before at the fresh positions, in the
\* order they had in before.
IsSweepOf(before, stamps, after, cutoff) ==
  LET K == FreshPositions(stamps, cutoff)
  IN /\ Len(after) = Cardinality(K)
     /\ \A i \in K : after[Cardinality({k \in K : k <= i})] = before[i]

StampsOf(log) == [i \in 1..Len(log) |-> log[i].timestamp]

\* C11: right after a sweep run at time now, each of the three event logs, the
\* error log and the timestamp log holds exactly its entries stamped at or
\* after now - retentionDays * 86400000, in their original relative order, and
\* so nothing older than the cutoff.
C11_SweepKeepsFresh ==
  [][Cleanup =>
       LET cutoff == now - RetentionDays * MsPerDay
       IN /\ IsSweepOf(toolCalls, StampsOf(toolCalls), toolCalls', cutoff)
          /\ IsSweepOf(resourceAccesses, StampsOf(resourceAccesses), resourceAccesses', cutoff)
          /\ IsSweepOf(promptCalls, StampsOf(promptCalls), promptCalls', cutoff)
          /\ IsSweepOf(errors, StampsOf(errors), errors', cutoff)
          /\ IsSweepOf(requestTimestamps, requestTimestamps, requestTimestamps', cutoff)
          /\ \A c \in Range(toolCalls' \o resourceAccesses' \o promptCalls' \o errors') :
               c.timestamp >= cutoff
          /\ \A t \in Range(requestTimestamps') : t >= cutoff]_vars

\* A sweep has just run; it dropped an event and kept one stamped exactly at
\* its cutoff.
C11_Witness ==
  /\ lastSweep = now
  /\ lastSweep >= CleanupIntervalMs
  /\ \E c \in Range(AllEvents) :
       /\ c.timestamp = lastSweep - RetentionDays * MsPerDay
       /\ c.id > 1
  /\ \A c \in Range(AllEvents) : c.id # 1
  /\ \E t \in Range(requestTimestamps) : t = lastSweep - RetentionDays * MsPerDay

\* The durations carried by the events now stored.
StoredDurations ==
  LET timed == SelectSeq(AllEvents, LAMBDA c : Has(c, "duration"))
  IN [i \in 1..Len(timed) |-> timed[i].duration]

\* C12: a snapshot reflects the stored events only: once a sweep has dropped
\* an event, the average and percentile latencies of every later snapshot are
\* those of the durations of the events still stored.
C12_SnapshotForgetsEvicted ==
  LET stored == getMetrics([Cur EXCEPT !.latencies = StoredDurations], now)
  IN /\ Metrics.avgResponseTime = stored.avgResponseTime
     /\ Metrics.performance.avgLatency = stored.performance.avgLatency
     /\ Metrics.performance.p50Latency = stored.performance.p50Latency
     /\ Metrics.performance.p95Latency = stored.performance.p95Latency
     /\ Metrics.performance.p99Latency = stored.performance.p99Latency

\* The error records derived from the events of log, one for each event whose
\* status is error, as [type, name] pairs in log order.
ErrorEventsOf(log, type, nameField) ==
  LET failed == SelectSeq(log, LAMBDA c : Get(c, "status") = "error")
  IN [i \in 1..Len(failed) |-> [type |-> type, name |-> Get(failed[i], nameField)]]

\* C13: in every state the error log holds exactly one error record for each
\* stored event with status error and none besides: per kind, the records of
\* that type are as many as the stored error events of that kind and carry
\* their names in the same order.
C13_ErrorsMatchErrorEvents ==
  /\ \A e \in Range(errors) : e.type \in {"tool", "resource", "prompt"}
  /\ LET Of(type) == LET recs == SelectSeq(errors, LAMBDA e : e.type = type)
                     IN [i \in 1..Len(recs) |-> [type |-> type, name |-> recs[i].name]]
     IN /\ Of("tool") = ErrorEventsOf(toolCalls, "tool", "toolName")
        /\ Of("resource") = ErrorEventsOf(resourceAccesses, "resource", "resourceUri")
        /\ Of("prompt") = ErrorEventsOf(promptCalls, "prompt", "promptName")

\* C14: the errors of a snapshot are the last 100 records of the error log in
\* log order, the whole log when it has no more than 100, and taking the
\* snapshot leaves the error log as it was.
C14_LastHundredErrors ==
  /\ [](LET shown == Metrics.errors
            skipped == Len(errors) - Len(shown)
        IN /\ Len(shown) = IF Len(errors) <= ErrorsShown THEN Len(errors) ELSE ErrorsShown
           /\ \A i \in 1..Len(shown) : shown[i] = errors[skipped + i])
  /\ [][GetMetrics => errors' = errors]_vars

\* The error log is longer than what a snapshot shows.
C14_Witness == Len(errors) > ErrorsShown /\ Len(Metrics.errors) = ErrorsShown

\* C15: getMetrics (and exportMetrics, which calls it) leaves the three event
\* logs, the error log, the duration log, the timestamp log and the start time
\* as they were.
C15_SnapshotWritesNothing ==
  [][GetMetrics => UNCHANGED <<toolCalls, resourceAccesses, promptCalls, errors,
                               latencies, requestTimestamps, startTime>>]_vars

\* A snapshot can be taken of a collector whose duration log is not in
\* ascending order, with events of the three kinds and an error stored.
C15_Witness ==
  /\ SortAsc(latencies) # latencies
  /\ toolCalls # <<>> /\ errors # <<>>
  /\ Metrics.performance.p50Latency = SortAsc(latencies)[1]
  /\ ENABLED GetMetrics

\* The positions of notes at which observer k was told of event.
Told(notes, k, event) ==
  {i \in 1..Len(notes) : notes[i].observer = k /\ notes[i].event = event}

\* C16: every ingestion notifies each observer subscribed at that moment
\* exactly once of the stored record, under the event of its category, and,
\* when the status is error, exactly once of the derived error record; nobody
\* else is notified, and no error notice goes out for another status.
C16_FanOut ==
  \A n \in 1..Len(observed.ingestions) :
    LET g == observed.ingestions[n]
        failed == Get(g.stored, "status") = "error"
    IN /\ \A i \in 1..Len(g.notified) : g.notified[i].observer \in 1..observed.listeners
       /\ \A k \in 1..observed.listeners :
            /\ Cardinality(Told(g.notified, k, g.event)) = 1
            /\ \A i \in Told(g.notified, k, g.event) : g.notified[i].record = g.stored
            /\ Cardinality(Told(g.notified, k, "mcp_error")) = IF failed THEN 1 ELSE 0
            /\ \A i \in Told(g.notified, k, "mcp_error") :
                 g.derived = <<g.notified[i].record>>

\* C17: no ingestion raises a failure to its caller, whatever the observers
\* do, and a wrapped call whose original succeeded resolves with the
\* original's value after one recorded event.
C17_ObserversCannotDisturb ==
  /\ \A n \in 1..Len(observed.ingestions) : ~observed.ingestions[n].raised
  /\ observed.via = "route" => observed.answer = 200
  /\ observed.via = "wrapper" =>
       \A i \in 1..MaxCalls :
         (Settled(calls[i]) /\ calls[i].original.ok) =>
           /\ calls[i] = Spread(calls[i], Resolved(calls[i].original.value))
           /\ Len(observed.ingestions) = 1

\* A body lacks a required field of its endpoint.
Invalid(body) ==
  \/ ~Has(body, "status")
  \/ DOMAIN body \cap {"toolName", "resourceUri", "promptName"} = {}

\* C18: a POST endpoint answers a body that lacks the name or the status with
\* 400 and records nothing for it.
C18_InvalidBodyRejected ==
  (observed.via = "route" /\ Invalid(observed.body)) =>
    /\ observed.answer = 400
    /\ observed.ingestions = <<>>
    /\ \A c \in Range(AllEvents) : c.id # nextId - 1

\* The names of the events of log, and the keys of the aggregates of list.
NamesIn(log, nameField) == {Get(log[i], nameField) : i \in 1..Len(log)}
KeysOf(list, keyField) == {list[i][keyField] : i \in 1..Len(list)}

\* list has one aggregate for each name of log and no other.
OnePerName(log, nameField, list, keyField) ==
  /\ KeysOf(list, keyField) = NamesIn(log, nameField)
  /\ Len(list) = Cardinality(NamesIn(log, nameField))

\* Every aggregate of before is in after as it was, but for the one of the
\* name of the event that after's log has gained.
OthersKept(log, logAfter, nameField, before, after, keyField) ==
  \A e \in Range(before) :
    \/ e \in Range(after)
    \/ /\ Len(logAfter) = Len(log) + 1
       /\ Get(logAfter[Len(logAfter)], nameField) = e[keyField]

\* C19: a snapshot holds one aggregate per distinct name of each kind, and an
\* ingestion for one name of one kind leaves the aggregates of every other
\* name of that kind, and all those of the other kinds (the one of the same
\* name included), as they were.
C19_AggregatesIndependent ==
  /\ [](LET M == Metrics
        IN /\ OnePerName(toolCalls, "toolName", M.tools, "name")
           /\ OnePerName(resourceAccesses, "resourceUri", M.resources, "uri")
           /\ OnePerName(promptCalls, "promptName", M.prompts, "name"))
  /\ [][LET before == Metrics
            after == getMetrics(Cur', now')
        IN /\ OthersKept(toolCalls, toolCalls', "toolName",
                         before.tools, after.tools, "name")
           /\ OthersKept(resourceAccesses, resourceAccesses', "resourceUri",
                         before.resources, after.resources, "uri")
           /\ OthersKept(promptCalls, promptCalls', "promptName",
                         before.prompts, after.prompts, "name")]_vars

\* Tools "a" and "b" and a resource "a" are stored: three aggregates, the two
\* named "a" each counting the one event of its own kind.
C19_Witness ==
  /\ Len(toolCalls) = 2 /\ Len(resourceAccesses) = 1
  /\ LET M == Metrics
     IN /\ KeysOf(M.tools, "name") = {"a", "b"}
        /\ KeysOf(M.resources, "uri") = {"a"}
        /\ \A i \in 1..2 : M.tools[i].callCount = 1
        /\ M.resources[1].accessCount = 1

\* logAfter has gained an event of status error over log.
GainedFailure(log, logAfter) ==
  /\ Len(logAfter) = Len(log) + 1
  /\ Get(logAfter[Len(logAfter)], "status") = "error"

\* The step appended to the error log one record of the type and the name, with
\* the message.
DerivedIs(type, name, message) ==
  /\ Len(errors') = Len(errors) + 1
  /\ SubSeq(errors', 1, Len(errors)) = errors
  /\ LET e == errors'[Len(errors')]
     IN e.type = type /\ e.name = name /\ e.error = message

\* The message of the error record derived from event c: c's error string, or
\* 'Unknown error' when c has none or an empty one.
MessageFor(c) ==
  IF Has(c, "error") /\ c.error # "" THEN c.error ELSE "Unknown error"

\* C20 as claimed: the error record derived from an event of status error
\* carries the event's error string, the empty string and a missing one
\* included.
C20_AsClaimed ==
  [][/\ GainedFailure(toolCalls, toolCalls') =>
          LET c == toolCalls'[Len(toolCalls')]
          IN DerivedIs("tool", c.toolName, Get(c, "error"))
     /\ GainedFailure(resourceAccesses, resourceAccesses') =>
          LET c == resourceAccesses'[Len(resourceAccesses')]
          IN DerivedIs("resource", c.resourceUri, Get(c, "error"))
     /\ GainedFailure(promptCalls, promptCalls') =>
          LET c == promptCalls'[Len(promptCalls')]
          IN DerivedIs("prompt", c.promptName, Get(c, "error"))]_vars

\* C20: the ingestion of an event of status error appends one error record
\* whose type is the event's kind, whose name is the event's name and whose
\* message is the event's error string when it has a non-empty one, and
\* 'Unknown error' when the string is empty or missing.
C20_DerivedError ==
  [][/\ GainedFailure(toolCalls, toolCalls') =>
          LET c == toolCalls'[Len(toolCalls')]
          IN DerivedIs("tool", c.toolName, MessageFor(c))
     /\ GainedFailure(resourceAccesses, resourceAccesses') =>
          LET c == resourceAccesses'[Len(resourceAccesses')]
          IN DerivedIs("resource", c.resourceUri, MessageFor(c))
     /\ GainedFailure(promptCalls, promptCalls') =>
          LET c == promptCalls'[Len(promptCalls')]
          IN DerivedIs("prompt", c.promptName, MessageFor(c))]_vars

\* Three failed events are stored, one with a message, one with the empty
\* string and one without an error string, and their three error records.
C20_Witness ==
  /\ Len(errors) = 3
  /\ \E c \in Range(AllEvents) : Get(c, "status") = "error" /\ Get(c, "error") = "boom"
  /\ \E c \in Range(AllEvents) : Get(c, "status") = "error" /\ Get(c, "error") = ""
  /\ \E c \in Range(AllEvents) : Get(c, "status") = "error" /\ ~Has(c, "error")
  /\ {errors[i].error : i \in 1..3} = {"boom", "Unknown error"}
  /\ {errors[i].type : i \in 1..3} = {"tool", "resource", "prompt"}

\* The stored tool events that carry the name of flight i.
EventsOfFlight(log, i) == CountWhere(log, LAMBDA e : Get(e, "toolName") = FlightNames[i])

Lands(i) == calls[i].state = "running" /\ Settled(calls'[i])

\* A step by which flight i completes stores exactly one event for it and
\* raises totalRequests by one, leaving the events of the others as they were.
LandingStoresOne ==
  \A i \in 1..MaxFlights :
    Lands(i) =>
      /\ EventsOfFlight(toolCalls', i) = 1
      /\ getMetrics(Cur', now').totalRequests = Metrics.totalRequests + 1
      /\ \A j \in 1..MaxFlights \ {i} :
           EventsOfFlight(toolCalls', j) = EventsOfFlight(toolCalls, j)

\* The start of an invocation, a snapshot, a tick, and a sweep whose cutoff is
\* older than every event: the log stays.
OthersStoreNothing ==
  (/\ \A i \in 1..MaxFlights : ~Lands(i)
   /\ \A k \in 1..Len(toolCalls) : toolCalls[k].timestamp > now - RetentionDays * MsPerDay)
    => toolCalls' = toolCalls

\* C21: with wrapped invocations running side by side and sweeps whose cutoff
\* is older than every event, an invocation that has not completed has no
\* stored event, the step that completes an invocation stores exactly one event
\* for it and raises totalRequests by one, and the start of an invocation and a
\* sweep store and remove nothing.
C21_OneEventPerCompletion ==
  /\ [](\A i \in 1..MaxFlights : ~Settled(calls[i]) => EventsOfFlight(toolCalls, i) = 0)
  /\ [][LandingStoresOne /\ OthersStoreNothing]_vars

\* The stored tool events of flight i that have the given status.
StoredFor(log, i, status) ==
  {k \in 1..Len(log) : Get(log[k], "toolName") = FlightNames[i]
                       /\ Get(log[k], "status") = status}

\* C22: in the state in which a wrapped call settles, its event is in the log,
\* a success event when it resolves and an error event with its error record in
\* the error log when it rejects, and the snapshot taken in that state counts
\* it and has the aggregate of its name.
C22_ReportedWhenSettled ==
  [][\A i \in 1..MaxFlights :
       Lands(i) =>
         LET snapshot == getMetrics(Cur', now')
             status == IF calls'[i].state = "resolved" THEN "success" ELSE "error"
         IN /\ StoredFor(toolCalls', i, status) # {}
            /\ status = "error" =>
                 \E k \in 1..Len(errors') :
                   errors'[k].type = "tool" /\ errors'[k].name = FlightNames[i]
            /\ snapshot.totalRequests = Len(toolCalls') /\ snapshot.totalRequests >= 1
            /\ FlightNames[i] \in KeysOf(snapshot.tools, "name")
            /\ status = "error" =>
                 \E k \in 1..Len(snapshot.errors) :
                   snapshot.errors[k].name = FlightNames[i]]_vars

\* One flight has rejected, its error record is stored, and the flight that
\* started before it is still running.
C22_Witness ==
  /\ calls[1].state = "running" /\ calls[2].state = "rejected"
  /\ StoredFor(toolCalls, 2, "error") # {}
  /\ \E k \in 1..Len(errors) : errors[k].name = FlightNames[2]

\* log keeps the records of before that it still holds in the order they had.
KeepsOrder(before, log) ==
  \A k, l \in 1..Len(log) :
    k < l => \E m, n \in 1..Len(before) : m < n /\ before[m] = log[k] /\ before[n] = log[l]

\* A step that completes flight i leaves what was stored where it was and puts
\* the flight's events after it.
LandingAppends ==
  \A i \in 1..MaxFlights :
    Lands(i) =>
      /\ Len(toolCalls') > Len(toolCalls)
      /\ SubSeq(toolCalls', 1, Len(toolCalls)) = toolCalls
      /\ \A k \in (Len(toolCalls) + 1)..Len(toolCalls') :
           Get(toolCalls'[k], "toolName") = FlightNames[i]

\* Any other step adds nothing and leaves the survivors in their order.
OthersKeepOrder ==
  (\A i \in 1..MaxFlights : ~Lands(i)) =>
    /\ Len(toolCalls') <= Len(toolCalls)
    /\ KeepsOrder(toolCalls, toolCalls')

\* C23: the records of a log are in the order of their ingestion: the ids the
\* collector assigned grow along each log; a step that completes a flight
\* leaves what was stored where it was and puts the flight's events after it,
\* whichever flight started first; any other step (a sweep) leaves the
\* surviving records in the order they had.
C23_IngestionOrder ==
  /\ [](\A k, l \in 1..Len(toolCalls) : k < l => toolCalls[k].id < toolCalls[l].id)
  /\ [][LandingAppends /\ OthersKeepOrder]_vars

\* The flight that started second completed first and its event is first in
\* the log.
C23_Witness ==
  /\ Settled(calls[1]) /\ Settled(calls[2])
  /\ Len(toolCalls) >= 2
  /\ Get(toolCalls[1], "toolName") = FlightNames[2]
  /\ Get(toolCalls[Len(toolCalls)], "toolName") = FlightNames[1]

\* The parameters payload of a reported body: params of a tool event, args of
\* a prompt event.
PayloadOf(kind, body) == IF kind = "tool" THEN Get(body, "params") ELSE Get(body, "args")

\* C24: the event a wrapped tool or prompt reports carries the caller's first
\* argument as its parameters payload whenever there is one, whatever its
\* value, and the empty object only when the caller passed no argument.
C24_FirstArgumentRecorded ==
  [][\A i \in 1..MaxFlights :
       (calls[i].state = "running" /\ Settled(calls'[i])) =>
         \A k \in 1..Len(calls'[i].reports) :
           PayloadOf(calls[i].kind, calls'[i].reports[k])
             = IF Len(calls[i].args) > 0 THEN calls[i].args[1] ELSE EmptyObj]_vars

\* The whitespace-delimited words of a string: the positions at which a run of
\* characters other than whitespace begins.
Words(chars) ==
  Cardinality({k \in 1..Len(chars) : chars[k] # " " /\ (k = 1 \/ chars[k - 1] = " ")})

\* C25: the event of a wrapped prompt that resolved with a string carries the
\* number of whitespace-delimited words of the string as tokensGenerated, and 0
\* for a result that is not a string; the event of a wrapped resource carries
\* the length of a string result as bytesTransferred, and 0 for a result that
\* is not a string.
C25_TokensAndBytes ==
  [][\A i \in 1..MaxFlights :
       (calls[i].state = "running" /\ calls'[i].state = "resolved") =>
         LET result == calls'[i].value
             body == calls'[i].reports[1]
             isString == result.t = "string"
         IN /\ calls[i].kind = "prompt" =>
                 body.tokensGenerated = IF isString THEN Words(result.s) ELSE 0
            /\ calls[i].kind = "resource" =>
                 body.bytesTransferred = IF isString THEN Len(result.s) ELSE 0]_vars

\* The step is a sweep: the timer's callback has run.
Sweeps == lastSweep' # lastSweep

\* C26: right after a sweep the duration log holds at most 10,000 entries and
\* is the suffix of the log before the sweep, as long as the cap allows: the
\* sweep drops entries only from the front and only those beyond the cap,
\* whatever their age.
C26_DurationCap ==
  [][Sweeps =>
       LET kept == Len(latencies')
           had == Len(latencies)
       IN /\ kept <= LatencyCap
          /\ kept = IF had < LatencyCap THEN had ELSE LatencyCap
          /\ latencies' = SubSeq(latencies, had - kept + 1, had)]_vars

\* A sweep has cut the duration log to the cap, dropping its oldest entry, and
\* has evicted every event by age while the durations of those events stay.
C26_Witness ==
  /\ lastSweep > RetentionDays * MsPerDay + 1
  /\ Len(latencies) = LatencyCap
  /\ latencies[1] = 2
  /\ toolCalls = <<>>

\* The entries of the timestamp log stamped at or after t.
StampedSince(t) == Cardinality({k \in 1..Len(requestTimestamps) : requestTimestamps[k] >= t})

\* C27: in the snapshot taken at time now, requestsPerSecond is the number of
\* entries of the timestamp log stamped at or after now - 1000 and
\* requestsPerMinute the number stamped at or after now - 60000, and
\* requestsPerSecond <= requestsPerMinute <= totalRequests.
C27_RatesWithinTotal ==
  LET M == Metrics
  IN /\ M.performance.requestsPerSecond = StampedSince(now - OneSecondMs)
     /\ M.requestsPerMinute = StampedSince(now - OneMinuteMs)
     /\ M.performance.requestsPerSecond <= M.requestsPerMinute
     /\ M.requestsPerMinute <= M.totalRequests

\* The double x lies in [0, 100].
WithinPercent(x) ==
  /\ "neg" \notin DOMAIN x
  /\ "negative" \notin DOMAIN DblSub(DblOfNat(100), x)

\* C28: in every snapshot the error log holds no more records than there are
\* stored events, errorRate and successRate lie in [0, 100], and they sum to
\* 100 (up to the rounding of the two products).
C28_RatesArePercentages ==
  LET M == Metrics
      P == M.performance
  IN /\ Len(errors) <= M.totalRequests
     /\ WithinPercent(P.errorRate)
     /\ WithinPercent(P.successRate)
     /\ Close(P.successRate, DblSub(DblOfNat(100), P.errorRate))

\* C29: every stored event belongs to an invocation that started at or after
\* the last reset (the construction, when there was none): its start, the time
\* it was stored less its duration, is not before startTime, and its duration
\* is no longer than the uptime of the snapshot taken in that state.
C29_ResetIsolates ==
  \A k \in 1..Len(toolCalls) :
    /\ toolCalls[k].timestamp - toolCalls[k].duration >= startTime
    /\ toolCalls[k].duration <= Metrics.uptime

\* The stored tool events of the given name whose status is error, in log order.
FailedEventsOf(name) ==
  SelectSeq(toolCalls, LAMBDA c : Get(c, "toolName") = name /\ Get(c, "status") = "error")

\* C30: in every snapshot the aggregate of each tool name lists one error
\* message for each stored error event of that name, in ingestion order, as
\* many as its errorCount, and its callCount is successCount + errorCount.
C30_ErrorListMatchesCount ==
  LET tools == Metrics.tools
  IN \A i \in 1..Len(tools) :
       LET failed == FailedEventsOf(tools[i].name)
       IN /\ Len(tools[i].errors) = tools[i].errorCount
          /\ tools[i].errors = [k \in 1..Len(failed) |-> Get(failed[k], "error")]
          /\ tools[i].callCount = tools[i].successCount + tools[i].errorCount

====
